---------------------------- MODULE Spec2Model ----------------------------
(***************************************************************************)
(* A model of voctoyolo.py: the PASCAL VOC -> YOLO converter and dataset   *)
(* splitter.                                                               *)
(*                                                                         *)
(*   convert_to_yolo_format  pure function, IEEE double arithmetic         *)
(*   process_xml_file        pure function of a file's content             *)
(*   main                    a sequential process; pc is its position      *)
(*                                                                         *)
(* Python floats are modelled bit-exactly: a double is a sign and a        *)
(* magnitude held as an exact multiple of 2^-FracBits in base-2^15 limbs   *)
(* (TLC's own integers are 32 bits wide), rounded to 53 significant bits   *)
(* half-to-even after every operation, as the hardware does.               *)
(***************************************************************************)
EXTENDS Integers, Sequences, FiniteSets, TLC

VARIABLES
    pc,             \* position of main: start, list, shuffle, subset, label,
                    \*   image, done, returned (fatal), raised (uncaught)
    xml_dir,        \* XML_DIR on disk: [exists, files: name -> content]
    image_dir,      \* IMAGE_DIR on disk: file name -> bytes
    out_dirs,       \* directories under OUTPUT_DIR: set of <<tree, subset>>
    out_labels,     \* files under OUTPUT_DIR/labels: <<subset, name>> -> lines
    out_images,     \* files under OUTPUT_DIR/images: <<subset, name>> -> bytes
    fresh,          \* the output root was empty when main started
    xml_files,      \* main's list xml_files
    data_splits,    \* main's dict data_splits
    subset,         \* index into SubsetOrder of the outer loop
    idx,            \* index of the inner loop in data_splits[subset]
    stdout,         \* what was printed, in order
    raised,         \* the exception that left main, or "none"
    arg,            \* argument of the function under test (function specs)
    ret             \* its result

vars == <<pc, xml_dir, image_dir, out_dirs, out_labels, out_images, fresh,
          xml_files, data_splits, subset, idx, stdout, raised, arg, ret>>

(***************************************************************************)
(* Bounds of the model.                                                    *)
(***************************************************************************)
MaxFiles == 7      \* annotation files in a directory (splitter specification)
MaxObjs  == 2      \* object entries per annotation file (parser specification)
MaxDim   == 5      \* image sides and box coordinates (converter specification)

(***************************************************************************)
(* Bind(x, F) is F(x) with x evaluated once, before F uses it: an          *)
(* operator's argument is otherwise evaluated anew at each of its uses.    *)
(***************************************************************************)
Bind(x, F(_)) == CHOOSE r \in { F(v) : v \in {x} } : TRUE

(***************************************************************************)
(* Exact non-negative numbers: NumLimbs limbs, least significant first,    *)
(* base LimbBase; the value is (sum limb[i] * LimbBase^(i-1)) * 2^-FracBits*)
(***************************************************************************)
LimbBits == 15
NumLimbs == 6
FracBits == 60
LimbBase == 2 ^ LimbBits

\* the number with limbs Limb(i), ..., Limb(NumLimbs), as a tuple
RECURSIVE BigBuild(_, _)
BigBuild(Limb(_), i) ==
    IF i > NumLimbs THEN <<>> ELSE <<Limb(i)>> \o BigBuild(Limb, i + 1)

\* the integer n (0 <= n < LimbBase^2) as a fixed-point number
BigOfInt(n) ==
    Bind(n, LAMBDA m :
        BigBuild(LAMBDA i : IF i = (FracBits \div LimbBits) + 1 THEN m % LimbBase
                            ELSE IF i = (FracBits \div LimbBits) + 2 THEN m \div LimbBase
                            ELSE 0, 1))

\* the smallest positive number, 2^-FracBits
BigUnit == BigBuild(LAMBDA i : IF i = 1 THEN 1 ELSE 0, 1)

RECURSIVE BigAddFrom(_, _, _, _)
BigAddFrom(a, b, i, carry) ==
    IF i > NumLimbs THEN <<>>
    ELSE Bind(a[i] + b[i] + carry, LAMBDA s :
            <<s % LimbBase>> \o BigAddFrom(a, b, i + 1, s \div LimbBase))

BigAdd(a, b) == Bind(<<a, b>>, LAMBDA t : BigAddFrom(t[1], t[2], 1, 0))

\* a - b for a >= b
RECURSIVE BigSubFrom(_, _, _, _)
BigSubFrom(a, b, i, borrow) ==
    IF i > NumLimbs THEN <<>>
    ELSE Bind(a[i] - b[i] - borrow, LAMBDA s :
            IF s < 0 THEN <<s + LimbBase>> \o BigSubFrom(a, b, i + 1, 1)
                     ELSE <<s>> \o BigSubFrom(a, b, i + 1, 0))

BigSub(a, b) == Bind(<<a, b>>, LAMBDA t : BigSubFrom(t[1], t[2], 1, 0))

\* a * k for 0 <= k < LimbBase
RECURSIVE BigMulFrom(_, _, _, _)
BigMulFrom(a, k, i, carry) ==
    IF i > NumLimbs THEN <<>>
    ELSE Bind(a[i] * k + carry, LAMBDA p :
            <<p % LimbBase>> \o BigMulFrom(a, k, i + 1, p \div LimbBase))

BigMul(a, k) == Bind(<<a, k>>, LAMBDA t : BigMulFrom(t[1], t[2], 1, 0))

\* floor(a / d) and the remainder, for 0 < d < LimbBase (long division)
RECURSIVE BigDivFrom(_, _, _, _)
BigDivFrom(a, d, i, rem) ==
    IF i = 0 THEN [q |-> <<>>, r |-> rem]
    ELSE Bind(rem * LimbBase + a[i], LAMBDA cur :
            Bind(BigDivFrom(a, d, i - 1, cur % d), LAMBDA rest :
                [q |-> Append(rest.q, cur \div d), r |-> rest.r]))

BigDiv(a, d) == Bind(<<a, d>>, LAMBDA t : BigDivFrom(t[1], t[2], NumLimbs, 0))

RECURSIVE BigLessFrom(_, _, _)
BigLessFrom(a, b, i) ==
    IF i = 0 THEN FALSE
    ELSE IF a[i] # b[i] THEN a[i] < b[i]
    ELSE BigLessFrom(a, b, i - 1)

BigLess(a, b) == Bind(<<a, b>>, LAMBDA t : BigLessFrom(t[1], t[2], NumLimbs))
BigLeq(a, b)  == ~BigLess(b, a)

BigLimb(a, i) == IF i \in 1..NumLimbs THEN a[i] ELSE 0

\* floor(a / 2^s) and a * 2^s, for s >= 0
BigShiftRight(a, s) ==
    Bind([a |-> a, k |-> s \div LimbBits, r |-> s % LimbBits], LAMBDA t :
        BigBuild(LAMBDA i : (BigLimb(t.a, i + t.k) \div (2 ^ t.r))
                            + (BigLimb(t.a, i + t.k + 1) % (2 ^ t.r)) * (2 ^ (LimbBits - t.r)),
                 1))

BigShiftLeft(a, s) ==
    Bind([a |-> a, k |-> s \div LimbBits, r |-> s % LimbBits], LAMBDA t :
        BigBuild(LAMBDA i : (BigLimb(t.a, i - t.k) % (2 ^ (LimbBits - t.r))) * (2 ^ t.r)
                            + (BigLimb(t.a, i - t.k - 1) \div (2 ^ (LimbBits - t.r))),
                 1))

RECURSIVE SmallBitLen(_)
SmallBitLen(x) == IF x = 0 THEN 0 ELSE 1 + SmallBitLen(x \div 2)

RECURSIVE BigBitLenFrom(_, _)
BigBitLenFrom(a, i) ==
    IF i = 0 THEN 0
    ELSE IF a[i] # 0 THEN LimbBits * (i - 1) + SmallBitLen(a[i])
    ELSE BigBitLenFrom(a, i - 1)

BigBitLen(a) == Bind(a, LAMBDA v : BigBitLenFrom(v, NumLimbs))

\* a rounded to a multiple of 2^s (s >= 1), ties to even; sticky says the
\* number being rounded is a little above a (a division left a remainder)
BigRoundAt(a, s, sticky) ==
    Bind([a |-> a, s |-> s], LAMBDA t :
    Bind(BigShiftRight(t.a, t.s), LAMBDA hi :
    Bind(BigSub(t.a, BigShiftLeft(hi, t.s)), LAMBDA low :
    Bind(BigShiftLeft(BigUnit, t.s - 1), LAMBDA half :
        LET up == \/ BigLess(half, low)
                  \/ low = half /\ (sticky \/ hi[1] % 2 = 1)
        IN  BigShiftLeft(IF up THEN BigAdd(hi, BigUnit) ELSE hi, t.s)))))

\* the integer part of a
BigFloor(a) ==
    Bind(BigShiftRight(a, FracBits), LAMBDA q : q[1] + q[2] * LimbBase)

(***************************************************************************)
(* IEEE-754 binary64 values [neg, mag] in the range the program computes   *)
(* in (no overflow, no subnormals).                                        *)
(***************************************************************************)
Precision == 53

\* round to nearest double, ties to even
FloatRound(a, sticky) ==
    Bind(a, LAMBDA v :
    Bind(BigBitLen(v) - Precision, LAMBDA s :
        IF s <= 0 THEN v ELSE BigRoundAt(v, s, sticky)))

Abs(n) == IF n < 0 THEN -n ELSE n

\* Python's n / d for integers n and d # 0 (true division, correctly
\* rounded); also n / float(d)
FloatQuotient(n, d) ==
    Bind(BigDiv(BigOfInt(Abs(n)), Abs(d)), LAMBDA q :
        [neg |-> (n < 0) # (d < 0), mag |-> FloatRound(q.q, q.r # 0)])

\* the quotients of small integers, computed once (a constant is evaluated
\* once); FloatDiv is FloatQuotient, looked up where it is tabulated
FloatQuotients ==
    [n \in (-MaxDim)..(2 * MaxDim), d \in 1..(2 * MaxDim) |-> FloatQuotient(n, d)]

FloatDiv(n, d) ==
    IF <<n, d>> \in DOMAIN FloatQuotients THEN FloatQuotients[n, d]
    ELSE FloatQuotient(n, d)

\* Python's x * n for a double x and an integer n >= 0
FloatMulInt(x, n) ==
    Bind(x, LAMBDA v : [neg |-> v.neg, mag |-> FloatRound(BigMul(v.mag, n), FALSE)])

\* Python's int(x) for x >= 0: truncation
IntOfFloat(x) == BigFloor(x.mag)

\* Python's f'{x:.6f}': the decimal nearest to the double's exact value,
\* ties to even, as [neg, micros] (the sign is kept: -0.000000 is printed
\* with its sign)
FormatDouble(x) ==
    Bind(x, LAMBDA v :
    Bind(BigMul(BigMul(v.mag, 1000), 1000), LAMBDA t :
    Bind(BigShiftRight(t, FracBits), LAMBDA q :
    Bind(BigSub(t, BigShiftLeft(q, FracBits)), LAMBDA low :
    Bind(BigShiftRight(BigOfInt(1), 1), LAMBDA half :
        LET up == BigLess(half, low) \/ (low = half /\ q[1] % 2 = 1)
        IN  [neg |-> v.neg, micros |-> q[1] + q[2] * LimbBase + (IF up THEN 1 ELSE 0)])))))

\* FormatDouble of the tabulated quotients, computed once
FormattedQuotients ==
    [x \in { FloatQuotients[p] : p \in DOMAIN FloatQuotients } |-> FormatDouble(x)]

FormatFixed6(x) ==
    Bind(x, LAMBDA v :
        IF v \in DOMAIN FormattedQuotients THEN FormattedQuotients[v] ELSE FormatDouble(v))

(***************************************************************************)
(* Configuration.                                                          *)
(***************************************************************************)
CLASS_NAMES == <<"pothole">>

\* the literals 0.70 and 0.15 are the doubles nearest to 70/100 and 15/100
SPLIT_RATIOS ==
    [train |-> FloatDiv(70, 100), val |-> FloatDiv(15, 100), test |-> FloatDiv(15, 100)]

\* iteration order of the dict SPLIT_RATIOS and of data_splits
SubsetOrder == <<"train", "val", "test">>

(***************************************************************************)
(* convert_to_yolo_format(size, box): size = <<img_w, img_h>>,             *)
(* box = <<xmin, xmax, ymin, ymax>>.  The result is [exc, yolo_box]: the   *)
(* exception raised, or the tuple (x_center, y_center, width, height).     *)
(***************************************************************************)
\* the conversion reading its box as (xmin, ymin, xmax, ymax)
ConvertMisindexed(size, box) ==
    IF size[1] = 0 \/ size[2] = 0
    THEN [exc |-> "ZeroDivisionError", yolo_box |-> <<>>]
    ELSE [exc |-> "none",
          yolo_box |-> << FloatDiv(box[1] + box[3], 2 * size[1]),
                          FloatDiv(box[2] + box[4], 2 * size[2]),
                          FloatDiv(box[3] - box[1], size[1]),
                          FloatDiv(box[4] - box[2], size[2]) >>]

convert_to_yolo_format(size, box) ==
    LET img_w == size[1]
        img_h == size[2]
        xmin  == box[1]
        xmax  == box[2]
        ymin  == box[3]
        ymax  == box[4]
    IN  IF img_w = 0 \/ img_h = 0
        THEN [exc |-> "ZeroDivisionError", yolo_box |-> <<>>]
        ELSE [exc |-> "none",
              yolo_box |-> << FloatDiv(xmin + xmax, 2 * img_w),
                              FloatDiv(ymin + ymax, 2 * img_h),
                              FloatDiv(xmax - xmin, img_w),
                              FloatDiv(ymax - ymin, img_h) >>]

\* line 83: the label line, as [class_id, coords]: the class id and the
\* four values each formatted to six decimals
FormatLine(class_id, yolo_box) ==
    Bind(yolo_box, LAMBDA f :
        [class_id |-> class_id,
         coords   |-> << FormatFixed6(f[1]), FormatFixed6(f[2]),
                         FormatFixed6(f[3]), FormatFixed6(f[4]) >>])

(***************************************************************************)
(* The content of an annotation file.  An element that should hold an      *)
(* integer is a field [k, v]: k = "absent" (find() returns None), "empty"  *)
(* (the element has no text: .text is None), "text" (text int() rejects)   *)
(* or "int" (text of the integer v).                                       *)
(***************************************************************************)
Absent   == [k |-> "absent", v |-> 0]
Empty    == [k |-> "empty", v |-> 0]
Text     == [k |-> "text", v |-> 0]
IntOf(n) == [k |-> "int", v |-> n]

\* int(node.find(tag).text): the exception it raises, or "none"
IntExc(f) ==
    CASE f.k = "absent" -> "AttributeError"
      [] f.k = "empty"  -> "TypeError"
      [] f.k = "text"   -> "ValueError"
      [] OTHER          -> "none"

\* the exception of evaluating int(...) on the fields in order
RECURSIVE FirstExc(_)
FirstExc(fs) ==
    IF fs = <<>> THEN "none"
    ELSE IF IntExc(Head(fs)) # "none" THEN IntExc(Head(fs))
    ELSE FirstExc(Tail(fs))

\* classes.index(class_name): the 0-based index, or -1 for ValueError
RECURSIVE ListIndexFrom(_, _, _)
ListIndexFrom(classes, name, i) ==
    IF i > Len(classes) THEN -1
    ELSE IF classes[i] = name THEN i - 1
    ELSE ListIndexFrom(classes, name, i + 1)

ListIndex(classes, name) == ListIndexFrom(classes, name, 1)

Msg(m, a) == [msg |-> m, arg |-> a]

\* lines 62-84, from the i-th object entry on
RECURSIVE ObjectLoop(_, _, _, _, _, _, _)
ObjectLoop(xml_path, objs, i, classes, size, yolo_lines, out) ==
    IF i > Len(objs) THEN [exc |-> "none", lines |-> yolo_lines, out |-> out]
    ELSE
    LET obj      == objs[i]
        class_id == IF obj.name.k = "text" THEN ListIndex(classes, obj.name.s) ELSE -1
        bndbox   == obj.bndbox
        boxExc   == IF ~bndbox.present THEN "AttributeError"
                    ELSE FirstExc(<<bndbox.xmin, bndbox.ymin, bndbox.xmax, bndbox.ymax>>)
        box      == <<bndbox.xmin.v, bndbox.xmax.v, bndbox.ymin.v, bndbox.ymax.v>>
    IN  IF obj.name.k = "absent"
        THEN [exc |-> "AttributeError", lines |-> <<>>, out |-> out]
        ELSE IF class_id = -1
        THEN ObjectLoop(xml_path, objs, i + 1, classes, size, yolo_lines,
                        Append(out, Msg("warn_class",
                                        IF obj.name.k = "text" THEN <<obj.name.s>> ELSE <<"None">>)))
        ELSE IF boxExc = "AttributeError"
        THEN ObjectLoop(xml_path, objs, i + 1, classes, size, yolo_lines,
                        Append(out, Msg("warn_bndbox", xml_path)))
        ELSE IF boxExc # "none"
        THEN [exc |-> boxExc, lines |-> <<>>, out |-> out]
        ELSE Bind(convert_to_yolo_format(size, box), LAMBDA conv :
            IF conv.exc # "none"
            THEN [exc |-> conv.exc, lines |-> <<>>, out |-> out]
            ELSE Bind(Append(yolo_lines, FormatLine(class_id, conv.yolo_box)), LAMBDA lines :
                    ObjectLoop(xml_path, objs, i + 1, classes, size, lines, out)))

(***************************************************************************)
(* process_xml_file(xml_path, classes), given the content doc of the file  *)
(* at xml_path.  The result is [exc, lines, out]: the exception that       *)
(* leaves the function ("none" when it returns), the list returned, and    *)
(* what it printed.                                                        *)
(***************************************************************************)
ParseDocument(xml_path, doc, classes) ==
    LET size    == doc.size
        sizeExc == IF ~size.present THEN "AttributeError"
                   ELSE FirstExc(<<size.width, size.height>>)
    IN  IF ~doc.wellformed
        THEN [exc |-> "none", lines |-> <<>>, out |-> <<Msg("error_parse", xml_path)>>]
        ELSE IF sizeExc = "AttributeError"
        THEN [exc |-> "none", lines |-> <<>>, out |-> <<Msg("error_size", xml_path)>>]
        ELSE IF sizeExc # "none"
        THEN [exc |-> sizeExc, lines |-> <<>>, out |-> <<>>]
        ELSE ObjectLoop(xml_path, doc.objects, 1, classes,
                        <<size.width.v, size.height.v>>, <<>>, <<>>)


(***************************************************************************)
(* File names are sequences of tokens: "." or a run of other characters.   *)
(***************************************************************************)
Dot == "."

\* a test of the last token only: "xml" passes for ".xml"
EndsWithLastToken(name, suffix) ==
    name # <<>> /\ name[Len(name)] = suffix[Len(suffix)]

\* str.endswith
EndsWith(name, suffix) ==
    /\ Len(name) >= Len(suffix)
    /\ SubSeq(name, Len(name) - Len(suffix) + 1, Len(name)) = suffix

\* the index of the last "." of name, 0 when it has none (str.rfind)
RECURSIVE RFindDot(_, _)
RFindDot(name, i) ==
    IF i = 0 THEN 0 ELSE IF name[i] = Dot THEN i ELSE RFindDot(name, i - 1)

\* os.path.splitext on a bare file name: <<root, ext>>.  The extension starts
\* at the last dot, unless only dots precede it (leading dots belong to the
\* root): splitext(".xml") = (".xml", "")
splitext(name) ==
    LET dotIndex == RFindDot(name, Len(name))
    IN  IF dotIndex > 0 /\ \E filenameIndex \in 1..(dotIndex - 1) : name[filenameIndex] # Dot
        THEN <<SubSeq(name, 1, dotIndex - 1), SubSeq(name, dotIndex, Len(name))>>
        ELSE <<name, <<>>>>

\* the allowed extensions in another order
ExtensionsPngFirst == << <<Dot, "png">>, <<Dot, "jpg">>, <<Dot, "jpeg">> >>

image_extensions == << <<Dot, "jpg">>, <<Dot, "jpeg">>, <<Dot, "png">> >>

\* a slice that takes its end index in: s[lo:hi+1]
SliceInclusive(s, lo, hi) ==
    LET Min(a, b) == IF a < b THEN a ELSE b
    IN  SubSeq(s, Min(lo, Len(s)) + 1, Min(hi + 1, Len(s)))

\* the Python slice s[lo:hi] for 0 <= lo, 0 <= hi
PySlice(s, lo, hi) ==
    LET Min(a, b) == IF a < b THEN a ELSE b
    IN  SubSeq(s, Min(lo, Len(s)) + 1, Min(hi, Len(s)))

\* the orders random.shuffle can leave a list in: all of them
RECURSIVE ShuffleOrders(_)
ShuffleOrders(s) ==
    IF s = <<>> THEN {<<>>}
    ELSE UNION { { SubSeq(p, 1, i - 1) \o <<Head(s)>> \o SubSeq(p, i, Len(p))
                   : i \in 1..(Len(p) + 1) }
                 : p \in ShuffleOrders(Tail(s)) }

\* a set as a list, in some fixed order
RECURSIVE SetToSeq(_)
SetToSeq(S) ==
    IF S = {} THEN <<>>
    ELSE LET x == CHOOSE y \in S : TRUE IN <<x>> \o SetToSeq(S \ {x})

Range(s) == {s[i] : i \in DOMAIN s}

\* a write that leaves out a file it has nothing to put in
WriteUnlessEmpty(f, path, content) ==
    IF content = <<>> THEN f ELSE (path :> content) @@ f

\* f with the file at path written or overwritten
WriteFile(f, path, content) == (path :> content) @@ f

(***************************************************************************)
(* Inputs: annotation documents.                                           *)
(***************************************************************************)
NoSize        == [present |-> FALSE, width |-> Absent, height |-> Absent]
Size(w, h)    == [present |-> TRUE, width |-> w, height |-> h]
NoBox         == [present |-> FALSE, xmin |-> Absent, ymin |-> Absent,
                  xmax |-> Absent, ymax |-> Absent]
Box(a, b, c, d) == [present |-> TRUE, xmin |-> a, ymin |-> b, xmax |-> c, ymax |-> d]
NoName        == [k |-> "absent", s |-> ""]
EmptyName     == [k |-> "empty", s |-> ""]
NameOf(s)     == [k |-> "text", s |-> s]
Object(n, b)  == [name |-> n, bndbox |-> b]
Doc(size, objs) == [wellformed |-> TRUE, size |-> size, objects |-> objs]
Unparsable    == [wellformed |-> FALSE, size |-> NoSize, objects |-> <<>>]

Size43  == Size(IntOf(4), IntOf(3))
BoxA    == Box(IntOf(1), IntOf(1), IntOf(3), IntOf(2))
BoxB    == Box(IntOf(0), IntOf(0), IntOf(4), IntOf(3))
BoxC    == Box(IntOf(1), IntOf(0), IntOf(2), IntOf(3))
Pothole(b) == Object(NameOf("pothole"), b)

DocGood       == Doc(Size43, <<Pothole(BoxA), Pothole(BoxB)>>)
DocNoSize     == Doc(NoSize, <<Pothole(BoxA)>>)
DocUnknown    == Doc(Size43, <<Object(NameOf("car"), BoxA), Pothole(BoxA)>>)
DocBackground == Doc(Size43, <<>>)
DocNoBox      == Doc(Size43, <<Pothole(NoBox), Pothole(BoxB)>>)
DocThirds     == Doc(Size(IntOf(3), IntOf(3)), <<Pothole(BoxC)>>)

\* documents process_xml_file returns on
SafeDocs == <<DocGood, Unparsable, DocNoSize, DocUnknown, DocBackground, DocNoBox, DocThirds>>

\* documents with a field the parser does not expect
OddDocs ==
    { Doc(Size(Text, IntOf(3)), <<>>),
      Doc(Size(IntOf(4), Empty), <<>>),
      Doc(Size(IntOf(0), IntOf(3)), <<Pothole(BoxA)>>),
      Doc(Size43, <<Object(NoName, BoxA)>>),
      Doc(Size43, <<Pothole(Box(IntOf(1), Text, IntOf(3), IntOf(2)))>>) }

(***************************************************************************)
(* Inputs: directories.                                                    *)
(***************************************************************************)
Letters == <<"a", "b", "c", "d", "e", "f", "g", "h", "i", "j">>

XmlName(i) == <<Letters[i], Dot, "xml">>

EmptyDir == [f \in {} |-> Unparsable]

\* files of the annotation directory that are no annotations
Noise == { <<"notes", Dot, "txt">>, <<"a", Dot, "xml", Dot, "bak">>, <<"xml">> }

\* n annotation files holding docs in rotation, and the noise
Numbered(n, docs) ==
    [exists |-> TRUE,
     files  |-> [f \in {XmlName(i) : i \in 1..n} \cup Noise |->
                   IF f \in Noise THEN Unparsable
                   ELSE LET i == CHOOSE j \in 1..n : XmlName(j) = f
                        IN  docs[((i - 1) % Len(docs)) + 1]]]

\* two annotation files whose names have the same root
DotFiles ==
    [exists |-> TRUE,
     files  |-> (<<Dot, "xml">> :> DocGood) @@ (<<Dot, "xml", Dot, "xml">> :> DocBackground)]

OddDir(doc) ==
    [exists |-> TRUE,
     files  |-> (XmlName(1) :> DocGood) @@ (XmlName(2) :> doc) @@ (XmlName(3) :> Unparsable)]

XmlDirs ==
    { [exists |-> FALSE, files |-> EmptyDir], [exists |-> TRUE, files |-> EmptyDir], DotFiles }
    \cup { Numbered(n, SafeDocs) : n \in {0, 1, 2, Len(SafeDocs)} }
    \cup { OddDir(doc) : doc \in OddDocs }

\* the directories of the splitter's specification
SplitDirs == { Numbered(n, <<DocBackground>>) : n \in 0..MaxFiles }

\* the image directory: for the i-th letter, by i modulo 4: .jpg and .png;
\* .jpeg and .png; no image (a .gif only); .png only
ImageDir ==
    LET names == UNION { CASE i % 4 = 1 -> { <<Letters[i], Dot, "jpg">>, <<Letters[i], Dot, "png">> }
                           [] i % 4 = 2 -> { <<Letters[i], Dot, "jpeg">>, <<Letters[i], Dot, "png">> }
                           [] i % 4 = 3 -> { <<Letters[i], Dot, "gif">> }
                           [] OTHER     -> { <<Letters[i], Dot, "png">> }
                         : i \in 1..Len(Letters) }
                 \cup { <<Dot, "xml", Dot, "jpg">> }
    IN  [f \in names |-> <<"bytes of">> \o f]

\* an output root left by an earlier run
StaleLabels == (<<"val", <<"a", Dot, "txt">>>> :> << [class_id |-> 0, coords |-> <<>>] >>)
StaleImages == (<<"test", <<"a", Dot, "png">>>> :> <<"bytes of an earlier run">>)
                @@ (<<"val", <<"c", Dot, "jpg">>>> :> <<"bytes of an earlier run">>)
StaleDirs   == { <<"labels", "val">>, <<"images", "test">>, <<"images", "val">> }

NoFiles == [f \in {} |-> <<>>]

\* process_xml_file without the handler of lines 46-48: ET.ParseError leaves it
ParseUncaught(xml_path, classes) ==
    IF ~xml_dir.files[xml_path].wellformed
    THEN [exc |-> "ParseError", lines |-> <<>>, out |-> <<>>]
    ELSE ParseDocument(xml_path, xml_dir.files[xml_path], classes)

(***************************************************************************)
(* process_xml_file(xml_path, classes) reads the file xml_path of XML_DIR. *)
(***************************************************************************)
process_xml_file(xml_path, classes) ==
    ParseDocument(xml_path, xml_dir.files[xml_path], classes)

(***************************************************************************)
(* main                                                                    *)
(***************************************************************************)
\* lines 90-96: os.makedirs(..., exist_ok=True) for every subset
MakeDirs ==
    /\ pc = "start"
    /\ out_dirs' = out_dirs \cup { <<tree, SubsetOrder[s]>> :
                                   tree \in {"images", "labels"}, s \in 1..Len(SubsetOrder) }
    /\ stdout' = stdout \o <<Msg("starting", <<>>)>>
                        \o [s \in 1..Len(SubsetOrder) |-> Msg("created", <<SubsetOrder[s]>>)]
    /\ pc' = "list"
    /\ UNCHANGED <<xml_dir, image_dir, out_labels, out_images, fresh, xml_files,
                   data_splits, subset, idx, raised, arg, ret>>

\* lines 99-107: the listing, filtered; the two fatal returns.  os.listdir
\* gives the names in an arbitrary order, which the shuffle of line 109
\* replaces by every order
ListXml ==
    /\ pc = "list"
    /\ IF ~xml_dir.exists
       THEN /\ stdout' = Append(stdout, Msg("fatal_not_found", <<>>))
            /\ pc' = "returned"
            /\ UNCHANGED xml_files
       ELSE LET listed == SetToSeq({f \in DOMAIN xml_dir.files : EndsWith(f, <<Dot, "xml">>)})
            IN  /\ xml_files' = listed
                /\ IF listed = <<>>
                   THEN /\ stdout' = Append(stdout, Msg("fatal_no_files", <<>>))
                        /\ pc' = "returned"
                   ELSE /\ stdout' = stdout
                        /\ pc' = "shuffle"
    /\ UNCHANGED <<xml_dir, image_dir, out_dirs, out_labels, out_images, fresh,
                   data_splits, subset, idx, raised, arg, ret>>

\* lines 113-114: int(ratio * num_files)
SplitPoint(ratio, num_files) == IntOfFloat(FloatMulInt(ratio, num_files))

\* lines 109-128: shuffle, cut into the three slices, report
ShuffleSplit ==
    /\ pc = "shuffle"
    /\ \E num_files \in {Len(xml_files)} :      \* the shuffle keeps the length
       \E train_end \in {SplitPoint(SPLIT_RATIOS.train, num_files)} :
       \E val_end \in {train_end + SplitPoint(SPLIT_RATIOS.val, num_files)} :
       \E shuffled \in ShuffleOrders(xml_files) :
             /\ xml_files' = shuffled
             /\ data_splits' = [train |-> PySlice(shuffled, 0, train_end),
                                val   |-> PySlice(shuffled, train_end, val_end),
                                test  |-> PySlice(shuffled, val_end, num_files)]
    /\ stdout' = Append(stdout, Msg("summary", <<>>))
    /\ subset' = 1
    /\ idx' = 1
    /\ pc' = "subset"
    /\ UNCHANGED <<xml_dir, image_dir, out_dirs, out_labels, out_images, fresh,
                   raised, arg, ret>>

\* lines 133-135: the outer loop enters the next subset
BeginSubset ==
    /\ pc = "subset"
    /\ subset <= Len(SubsetOrder)
    /\ stdout' = Append(stdout, Msg("processing", <<SubsetOrder[subset]>>))
    /\ idx' = 1
    /\ IF data_splits[SubsetOrder[subset]] = <<>>
       THEN pc' = "subset" /\ subset' = subset + 1
       ELSE pc' = "label" /\ UNCHANGED subset
    /\ UNCHANGED <<xml_dir, image_dir, out_dirs, out_labels, out_images, fresh,
                   xml_files, data_splits, raised, arg, ret>>

\* lines 136-145: parse the annotation and write the label file
ConvertLabel ==
    /\ pc = "label"
    /\ LET name       == SubsetOrder[subset]
           xml_file   == data_splits[name][idx]
           base_name  == splitext(xml_file)[1]
           result     == process_xml_file(xml_file, CLASS_NAMES)
           label_output_path == <<name, base_name \o <<Dot, "txt">>>>
       IN  /\ stdout' = stdout \o result.out
           /\ IF result.exc # "none"
              THEN /\ pc' = "raised"
                   /\ raised' = result.exc
                   /\ UNCHANGED out_labels
              ELSE IF <<"labels", name>> \notin out_dirs
              THEN /\ pc' = "raised"
                   /\ raised' = "FileNotFoundError"
                   /\ UNCHANGED out_labels
              ELSE /\ out_labels' = WriteFile(out_labels, label_output_path, result.lines)
                   /\ pc' = "image"
                   /\ UNCHANGED raised
    /\ UNCHANGED <<xml_dir, image_dir, out_dirs, out_images, fresh, xml_files,
                   data_splits, subset, idx, arg, ret>>

\* lines 151-156: the index of the first extension whose file exists, 0 if none
RECURSIVE FirstImageExt(_, _)
FirstImageExt(base_name, i) ==
    IF i > Len(image_extensions) THEN 0
    ELSE IF (base_name \o image_extensions[i]) \in DOMAIN image_dir THEN i
    ELSE FirstImageExt(base_name, i + 1)

\* lines 148-161: copy the image, then go on to the next item
CopyImage ==
    /\ pc = "image"
    /\ LET name      == SubsetOrder[subset]
           xml_file  == data_splits[name][idx]
           base_name == splitext(xml_file)[1]
           e         == FirstImageExt(base_name, 1)
           src_image_path == base_name \o image_extensions[e]
           dst_image_path == <<name, base_name \o image_extensions[e]>>
       IN  /\ IF e # 0 /\ <<"images", name>> \notin out_dirs
              THEN /\ pc' = "raised"
                   /\ raised' = "FileNotFoundError"
                   /\ UNCHANGED <<out_images, stdout, subset, idx>>
              ELSE /\ IF e # 0
                      THEN /\ out_images' = WriteFile(out_images, dst_image_path,
                                                      image_dir[src_image_path])
                           /\ UNCHANGED stdout
                      ELSE /\ stdout' = Append(stdout, Msg("warn_image", base_name))
                           /\ UNCHANGED out_images
                   /\ IF idx < Len(data_splits[name])
                      THEN idx' = idx + 1 /\ pc' = "label" /\ UNCHANGED subset
                      ELSE subset' = subset + 1 /\ pc' = "subset" /\ UNCHANGED idx
                   /\ UNCHANGED raised
    /\ UNCHANGED <<xml_dir, image_dir, out_dirs, out_labels, fresh, xml_files,
                   data_splits, arg, ret>>

\* line 163: the completion message
Finish ==
    /\ pc = "subset"
    /\ subset > Len(SubsetOrder)
    /\ stdout' = Append(stdout, Msg("complete", <<>>))
    /\ pc' = "done"
    /\ UNCHANGED <<xml_dir, image_dir, out_dirs, out_labels, out_images, fresh,
                   xml_files, data_splits, subset, idx, raised, arg, ret>>


(***************************************************************************)
(* The pipeline.                                                           *)
(***************************************************************************)
InitMain(dirs, freshness) ==
    /\ pc = "start"
    /\ xml_dir \in dirs
    /\ image_dir = ImageDir
    /\ fresh \in freshness
    /\ out_dirs = IF fresh THEN {} ELSE StaleDirs
    /\ out_labels = IF fresh THEN NoFiles ELSE StaleLabels
    /\ out_images = IF fresh THEN NoFiles ELSE StaleImages
    /\ xml_files = <<>>
    /\ data_splits = [train |-> <<>>, val |-> <<>>, test |-> <<>>]
    /\ subset = 0
    /\ idx = 0
    /\ stdout = <<>>
    /\ raised = "none"
    /\ arg = <<>>
    /\ ret = <<>>

\* an output root left by an earlier run is met with the smaller directories
Init ==
    \/ InitMain(XmlDirs, {TRUE})
    \/ InitMain({d \in XmlDirs : Cardinality(DOMAIN d.files) <= Cardinality(Noise) + 3}, {FALSE})

Next ==
    \/ MakeDirs
    \/ ListXml
    \/ ShuffleSplit
    \/ BeginSubset
    \/ ConvertLabel
    \/ CopyImage
    \/ Finish

Spec == Init /\ [][Next]_vars

(***************************************************************************)
(* The splitter alone: every directory size up to MaxFiles.                *)
(***************************************************************************)
InitSplit == InitMain(SplitDirs, {TRUE})

NextSplit ==
    \/ MakeDirs
    \/ ListXml
    \/ ShuffleSplit

SpecSplit == InitSplit /\ [][NextSplit]_vars

(***************************************************************************)
(* The functions alone.                                                    *)
(***************************************************************************)
InitCall(dir, a) ==
    /\ pc = "call"
    /\ xml_dir = dir
    /\ arg = a
    /\ ret = <<>>
    /\ image_dir = ImageDir
    /\ fresh = TRUE
    /\ out_dirs = {}
    /\ out_labels = NoFiles
    /\ out_images = NoFiles
    /\ xml_files = <<>>
    /\ data_splits = [train |-> <<>>, val |-> <<>>, test |-> <<>>]
    /\ subset = 0
    /\ idx = 0
    /\ stdout = <<>>
    /\ raised = "none"

Frame == UNCHANGED <<xml_dir, image_dir, out_dirs, out_labels, out_images, fresh,
                     xml_files, data_splits, subset, idx, stdout, raised, arg>>

ParseSizes ==
    { NoSize, Size43,
      Size(Absent, IntOf(3)), Size(IntOf(4), Absent),
      Size(Empty, IntOf(3)), Size(IntOf(4), Text),
      Size(IntOf(0), IntOf(3)), Size(IntOf(4), IntOf(0)) }

ParseObjects ==
    { Pothole(b) : b \in { BoxA, BoxC, NoBox,
                           Box(IntOf(1), IntOf(1), Absent, IntOf(2)),
                           Box(Empty, IntOf(1), IntOf(3), IntOf(2)),
                           Box(IntOf(1), Text, IntOf(3), IntOf(2)) } }
    \cup { Object(NameOf("crack"), BoxA), Object(NameOf("crack"), NoBox),
           Object(NameOf("car"), BoxA),
           Object(NameOf("car"), Box(IntOf(1), Text, IntOf(3), IntOf(2))),
           Object(NoName, BoxA), Object(EmptyName, BoxA) }

ParseDocs ==
    { Unparsable }
    \cup { Doc(size, objs) : size \in ParseSizes,
                             objs \in UNION { [1..k -> ParseObjects] : k \in 0..MaxObjs } }

Registries == { CLASS_NAMES, <<"crack", "pothole">> }

InitParse ==
    \E doc \in ParseDocs, classes \in Registries :
        InitCall([exists |-> TRUE, files |-> (XmlName(1) :> doc)],
                 [xml_path |-> XmlName(1), classes |-> classes])

CallParse ==
    /\ pc = "call"
    /\ ret' = process_xml_file(arg.xml_path, arg.classes)
    /\ pc' = "ret"
    /\ Frame

SpecParse == InitParse /\ [][CallParse]_vars

InitConvert ==
    \E img_w \in 0..MaxDim, img_h \in 0..MaxDim,
       xmin \in 0..MaxDim, xmax \in 0..MaxDim, ymin \in 0..MaxDim, ymax \in 0..MaxDim :
        InitCall([exists |-> FALSE, files |-> EmptyDir],
                 [size |-> <<img_w, img_h>>, box |-> <<xmin, xmax, ymin, ymax>>])

\* line 81 and the formatting of line 83
CallConvert ==
    /\ pc = "call"
    /\ LET conv == convert_to_yolo_format(arg.size, arg.box)
       IN  ret' = [exc |-> conv.exc, yolo_box |-> conv.yolo_box,
                   line |-> IF conv.exc = "none" THEN FormatLine(0, conv.yolo_box)
                            ELSE [class_id |-> 0, coords |-> <<>>]]
    /\ pc' = "ret"
    /\ Frame

SpecConvert == InitConvert /\ [][CallConvert]_vars

(***************************************************************************)
(* Properties of the split (SpecSplit).                                    *)
(***************************************************************************)
\* the annotation files of XML_DIR: the names ending in ".xml"
IsXmlName(f) == Len(f) >= 2 /\ f[Len(f)] = "xml" /\ f[Len(f) - 1] = Dot
Discovered == { f \in DOMAIN xml_dir.files : IsXmlName(f) }

\* C1: once main has split N >= 1 discovered files, in whatever order the
\* shuffle left them, train, val and test are consecutive slices of the
\* shuffled list cut at train_end and val_end, they are pairwise disjoint,
\* their union is the discovered set and their lengths add up to N.
C1_SplitPartition ==
    (pc = "subset" /\ Len(xml_files) >= 1) =>
        LET N         == Len(xml_files)
            train     == data_splits.train
            val       == data_splits.val
            test      == data_splits.test
            train_end == SplitPoint(SPLIT_RATIOS.train, N)
            val_end   == train_end + SplitPoint(SPLIT_RATIOS.val, N)
        IN  /\ train = SubSeq(xml_files, 1, train_end)
            /\ val = SubSeq(xml_files, train_end + 1, val_end)
            /\ test = SubSeq(xml_files, val_end + 1, N)
            /\ Range(train) \cap Range(val) = {}
            /\ Range(train) \cap Range(test) = {}
            /\ Range(val) \cap Range(test) = {}
            /\ Range(train) \cup Range(val) \cup Range(test) = Discovered
            /\ Len(train) + Len(val) + Len(test) = N
            /\ Cardinality(Discovered) = N

\* a split of two files: one in train, none in val, one in test
C1_Witness ==
    /\ pc = "subset"
    /\ Len(xml_files) = 2
    /\ Len(data_splits.train) = 1
    /\ data_splits.val = <<>>
    /\ Len(data_splits.test) = 1

(***************************************************************************)
(* Properties of main (Spec).                                              *)
(***************************************************************************)
SixDirs == { <<tree, s>> : tree \in {"images", "labels"}, s \in {"train", "val", "test"} }

Printed(m) == \E i \in DOMAIN stdout : stdout[i].msg = m

\* the output files main found when it started
InitialLabels == IF fresh THEN NoFiles ELSE StaleLabels
InitialImages == IF fresh THEN NoFiles ELSE StaleImages

\* C3: when XML_DIR is missing or holds no file ending in ".xml", main, once
\* past the listing, has returned: the six directories exist, the fatal
\* diagnostic of the case is its last output, no label file was written, no
\* image was copied, nothing was shuffled or split and the completion message
\* was not printed.  And main returns early in these two cases only.
C3_FatalReturn ==
    /\ (pc \notin {"start", "list"} /\ (~xml_dir.exists \/ Discovered = {})) =>
            /\ pc = "returned"
            /\ SixDirs \subseteq out_dirs
            /\ stdout[Len(stdout)].msg =
                   (IF xml_dir.exists THEN "fatal_no_files" ELSE "fatal_not_found")
            /\ out_labels = InitialLabels
            /\ out_images = InitialImages
            /\ xml_files = <<>>
            /\ data_splits = [train |-> <<>>, val |-> <<>>, test |-> <<>>]
            /\ ~Printed("summary")
            /\ ~Printed("processing")
            /\ ~Printed("complete")
    /\ pc = "returned" => (~xml_dir.exists \/ Discovered = {})

\* main has returned from a directory that exists and holds files, none of
\* them an annotation
C3_Witness ==
    /\ pc = "returned"
    /\ xml_dir.exists
    /\ DOMAIN xml_dir.files # {}
    /\ Printed("fatal_no_files")

\* C2: once XML_DIR exists and holds an annotation file, no exception leaves
\* main, whatever the annotation files contain: the run is never aborted.
C2_NeverAborts ==
    (xml_dir.exists /\ Discovered # {}) => (pc # "raised" /\ raised = "none")

(***************************************************************************)
(* Properties of process_xml_file (SpecParse).                             *)
(***************************************************************************)
\* the document of the call, and the path it was read from
CalledDoc == xml_dir.files[arg.xml_path]

\* a size section that is absent, or whose width or height is absent, empty
\* or no integer
SizeUnreadable(size) ==
    \/ ~size.present
    \/ size.width.k # "int"
    \/ size.height.k # "int"

\* C5: for a parsable file whose size section is absent or malformed,
\* process_xml_file returns (it does not raise) the empty list, having
\* printed the warning that names the file.
C5_SizeRecoverable ==
    (pc = "ret" /\ CalledDoc.wellformed /\ SizeUnreadable(CalledDoc.size)) =>
        /\ ret.exc = "none"
        /\ ret.lines = <<>>
        /\ ret.out = <<Msg("error_size", arg.xml_path)>>

\* a size section with positive integer width and height
SizeValid(size) ==
    /\ size.present
    /\ size.width.k = "int" /\ size.width.v > 0
    /\ size.height.k = "int" /\ size.height.v > 0

\* the object names a class of the registry
ClassKnown(obj, classes) ==
    obj.name.k = "text" /\ \E c \in DOMAIN classes : classes[c] = obj.name.s

\* the box of the object has its four coordinates
BoxComplete(obj) ==
    /\ obj.bndbox.present
    /\ \A f \in {obj.bndbox.xmin, obj.bndbox.ymin, obj.bndbox.xmax, obj.bndbox.ymax} :
           f.k = "int"

\* the line of an object with a known class and a complete box
LineOf(obj, classes, size) ==
    FormatLine(CHOOSE c \in 0..(Len(classes) - 1) : classes[c + 1] = obj.name.s,
               convert_to_yolo_format(
                   <<size.width.v, size.height.v>>,
                   <<obj.bndbox.xmin.v, obj.bndbox.xmax.v,
                     obj.bndbox.ymin.v, obj.bndbox.ymax.v>>).yolo_box)

\* one line per object with a known class and a complete box, in file order
RECURSIVE ExpectedLines(_, _, _)
ExpectedLines(objs, classes, size) ==
    IF objs = <<>> THEN <<>>
    ELSE (IF ClassKnown(Head(objs), classes) /\ BoxComplete(Head(objs))
          THEN <<LineOf(Head(objs), classes, size)>> ELSE <<>>)
         \o ExpectedLines(Tail(objs), classes, size)

\* C6: for a file with a valid size section, process_xml_file returns one
\* line per object whose class is in the registry and whose box has its four
\* coordinates, in file order, each with the registry index of its class;
\* every other object yields no line and stops nothing.
C6_OneLinePerObject ==
    (pc = "ret" /\ CalledDoc.wellformed /\ SizeValid(CalledDoc.size)) =>
        /\ ret.exc = "none"
        /\ ret.lines = ExpectedLines(CalledDoc.objects, arg.classes, CalledDoc.size)

(***************************************************************************)
(* Properties of the per-item loop of main (Spec).                         *)
(***************************************************************************)
Subsets == {"train", "val", "test"}

\* the item main is at, while pc is "label" or "image"
CurrentSubset == SubsetOrder[subset]
CurrentFile   == data_splits[CurrentSubset][idx]

BaseName(f)     == splitext(f)[1]
LabelPath(s, f) == <<s, BaseName(f) \o <<Dot, "txt">>>>

\* C7: when a run started on an empty output root completes, every
\* discovered annotation file has a label file in the subset it was assigned
\* to and in no other, holding the lines the parser returned for it (present
\* and empty when it returned none).
C7_OneLabelPerIdentifier ==
    (fresh /\ pc = "done") =>
        \A f \in Discovered :
            /\ Cardinality({ s \in Subsets : f \in Range(data_splits[s]) }) = 1
            /\ \A s \in Subsets :
                   /\ LabelPath(s, f) \in DOMAIN out_labels <=> f \in Range(data_splits[s])
                   /\ f \in Range(data_splits[s]) =>
                          out_labels[LabelPath(s, f)] = process_xml_file(f, CLASS_NAMES).lines

\* C4: for an item whose file is no XML, process_xml_file returns the empty
\* list after its warning; main's step then writes the empty label file
\* labels/<subset>/<basename>.txt, changes no other label file and raises
\* nothing; its next step moves on to the next item of the subset, or to the
\* next subset; and when main completes, every such file has its empty label
\* file in its subset.
C4_UnparsableStep ==
    (pc \in {"label", "image"} /\ ~xml_dir.files[CurrentFile].wellformed) =>
        IF pc = "label"
        THEN /\ process_xml_file(CurrentFile, CLASS_NAMES) =
                    [exc |-> "none", lines |-> <<>>,
                     out |-> <<Msg("error_parse", CurrentFile)>>]
             /\ DOMAIN out_labels' = DOMAIN out_labels \cup {LabelPath(CurrentSubset, CurrentFile)}
             /\ out_labels'[LabelPath(CurrentSubset, CurrentFile)] = <<>>
             /\ \A p \in DOMAIN out_labels \ {LabelPath(CurrentSubset, CurrentFile)} :
                    out_labels'[p] = out_labels[p]
             /\ stdout' = Append(stdout, Msg("error_parse", CurrentFile))
             /\ pc' = "image"
             /\ raised' = "none"
             /\ UNCHANGED <<subset, idx>>
        ELSE /\ raised' = "none"
             /\ IF idx < Len(data_splits[CurrentSubset])
                THEN pc' = "label" /\ subset' = subset /\ idx' = idx + 1
                ELSE pc' = "subset" /\ subset' = subset + 1

C4_UnparsableSkipped ==
    /\ [][C4_UnparsableStep]_vars
    /\ [](pc = "done" =>
             \A s \in Subsets : \A i \in DOMAIN data_splits[s] :
                 ~xml_dir.files[data_splits[s][i]].wellformed =>
                     /\ LabelPath(s, data_splits[s][i]) \in DOMAIN out_labels
                     /\ out_labels[LabelPath(s, data_splits[s][i])] = <<>>)

\* main has completed a run in which a file that is no XML was followed, in
\* its subset, by another item: both have their label files
C4_Witness ==
    /\ pc = "done"
    /\ \E s \in Subsets : \E i \in DOMAIN data_splits[s] :
           /\ ~xml_dir.files[data_splits[s][i]].wellformed
           /\ i < Len(data_splits[s])
           /\ out_labels[LabelPath(s, data_splits[s][i])] = <<>>
           /\ LabelPath(s, data_splits[s][i + 1]) \in DOMAIN out_labels
           /\ out_labels[LabelPath(s, data_splits[s][i + 1])] # <<>>

\* the allowed extensions, in the order main tries them
Jpg  == <<Dot, "jpg">>
Jpeg == <<Dot, "jpeg">>
Png  == <<Dot, "png">>

\* the image main is to pick for a base name: <<>> when there is none
ImageFor(base) ==
    IF (base \o Jpg) \in DOMAIN image_dir THEN base \o Jpg
    ELSE IF (base \o Jpeg) \in DOMAIN image_dir THEN base \o Jpeg
    ELSE IF (base \o Png) \in DOMAIN image_dir THEN base \o Png
    ELSE <<>>

\* the step of main that follows the writing of an item's label file
C8_ImageStep ==
    pc = "image" =>
        LET base  == BaseName(CurrentFile)
            image == ImageFor(base)
        IN  /\ LabelPath(CurrentSubset, CurrentFile) \in DOMAIN out_labels
            /\ UNCHANGED out_labels
            /\ IF image # <<>>
               THEN /\ DOMAIN out_images' = DOMAIN out_images \cup {<<CurrentSubset, image>>}
                    /\ out_images'[<<CurrentSubset, image>>] = image_dir[image]
                    /\ \A p \in DOMAIN out_images \ {<<CurrentSubset, image>>} :
                           out_images'[p] = out_images[p]
                    /\ stdout' = stdout
               ELSE /\ out_images' = out_images
                    /\ stdout' = Append(stdout, Msg("warn_image", base))

\* C8: for each processed item main copies at most one image: the file
\* <basename><ext> of IMAGE_DIR for the first ext of .jpg, .jpeg, .png that
\* exists, to images/<subset>/<basename><ext> of the item's subset, and no
\* other file of the image tree changes; when there is none, the label file
\* is written all the same, the warning is printed and no image file is
\* added.  Hence in a run started on an empty output root every file of the
\* image tree is the first-extension image of an item of its subset, so that
\* a base name without an image has no file there.
C8_FirstImageOnly ==
    /\ [][C8_ImageStep]_vars
    /\ [](fresh =>
             \A p \in DOMAIN out_images :
                 \E f \in Range(data_splits[p[1]]) :
                     /\ p[2] = ImageFor(BaseName(f))
                     /\ out_images[p] = image_dir[p[2]]
                     /\ LabelPath(p[1], f) \in DOMAIN out_labels)

\* main has completed a run that copied a .jpeg in preference to a .png and
\* left an item without an image, with a label file and a warning
C8_Witness ==
    /\ pc = "done"
    /\ fresh
    /\ \E s \in Subsets : <<s, <<"b", Dot, "jpeg">>>> \in DOMAIN out_images
    /\ \A s \in Subsets : <<s, <<"b", Dot, "png">>>> \notin DOMAIN out_images
    /\ \E s \in Subsets : <<s, <<"c", Dot, "txt">>>> \in DOMAIN out_labels
    /\ \E i \in DOMAIN stdout : stdout[i] = Msg("warn_image", <<"c">>)
    /\ \A p \in DOMAIN out_images : p[2][1] # "c"

\* the items main has finished with, and the one it is at
Position == IF pc \in {"label", "image"} THEN <<subset, idx>>
            ELSE IF pc \in {"subset", "done"} THEN <<subset, 1>>
            ELSE <<1, 1>>
Before(s, i) == s < Position[1] \/ (s = Position[1] /\ i < Position[2])

\* no two annotation files have the same base name
DistinctBases == \A f, g \in Discovered : BaseName(f) = BaseName(g) => f = g

\* C10: main works through train, then val, then test, each in list order,
\* one item at a time, and writes an item's label file before it copies its
\* image: every item before the current one has its label file, the current
\* one has it once main is at its image, and (on an empty output root, with
\* distinct base names) no later item has a label file or an image yet.  So
\* in every state of a run started on an empty output root every image file
\* under images/<subset>/ has a label file of the same base name under
\* labels/<subset>/.
C10_LabelBeforeImage ==
    /\ fresh =>
           \A p \in DOMAIN out_images :
               <<p[1], BaseName(p[2]) \o <<Dot, "txt">>>> \in DOMAIN out_labels
    /\ pc \in {"subset", "label", "image", "done"} =>
           \A s \in 1..Len(SubsetOrder) : \A i \in DOMAIN data_splits[SubsetOrder[s]] :
               (Before(s, i) \/ (pc = "image" /\ <<s, i>> = Position)) =>
                   \E f \in {data_splits[SubsetOrder[s]][i]} :
                       /\ LabelPath(SubsetOrder[s], f) \in DOMAIN out_labels
                       /\ (Before(s, i) /\ ImageFor(BaseName(f)) # <<>>) =>
                              <<SubsetOrder[s], ImageFor(BaseName(f))>> \in DOMAIN out_images
    /\ (pc \in {"subset", "label", "image"} /\ fresh /\ DistinctBases) =>
           \A s \in Position[1]..Len(SubsetOrder) : \A i \in DOMAIN data_splits[SubsetOrder[s]] :
               ~Before(s, i) =>
                   \E base \in {BaseName(data_splits[SubsetOrder[s]][i])} :
                       /\ (pc # "image" \/ <<s, i>> # Position) =>
                              \A t \in Subsets : <<t, base \o <<Dot, "txt">>>> \notin DOMAIN out_labels
                       /\ \A q \in DOMAIN out_images : BaseName(q[2]) # base

\* main is in the middle of val on an empty output root: train is done, the
\* current item has its label file and not yet its image
C10_Witness ==
    /\ fresh
    /\ pc = "image"
    /\ subset = 2
    /\ data_splits.train # <<>>
    /\ ImageFor(BaseName(CurrentFile)) # <<>>
    /\ LabelPath(CurrentSubset, CurrentFile) \in DOMAIN out_labels
    /\ <<CurrentSubset, ImageFor(BaseName(CurrentFile))>> \notin DOMAIN out_images
    /\ \E p \in DOMAIN out_images : p[1] = "train"

(***************************************************************************)
(* Properties of convert_to_yolo_format (SpecConvert).                     *)
(***************************************************************************)
\* x + y, x - y and x / 2 in double arithmetic, for doubles x >= y >= 0
FloatAdd(x, y) == [neg |-> FALSE, mag |-> FloatRound(BigAdd(x.mag, y.mag), FALSE)]
FloatSub(x, y) == [neg |-> FALSE, mag |-> FloatRound(BigSub(x.mag, y.mag), FALSE)]
FloatHalf(x)   == [neg |-> x.neg, mag |-> BigShiftRight(x.mag, 1)]

\* (center - extent/2) * side and (center + extent/2) * side, as Python
\* computes them
ExpandLow(center, extent, side)  == FloatMulInt(FloatSub(center, FloatHalf(extent)), side)
ExpandHigh(center, extent, side) == FloatMulInt(FloatAdd(center, FloatHalf(extent)), side)

\* the double x is the integer n
IsInt(x, n) == ~x.neg /\ x.mag = BigOfInt(n)

\* |a - b| <= k * 2^-FracBits for exact numbers a and b
BigNear(a, b, k) ==
    /\ BigLeq(a, BigAdd(b, BigMul(BigUnit, k)))
    /\ BigLeq(b, BigAdd(a, BigMul(BigUnit, k)))

\* the double x is the quotient n / d to within half a unit in the last
\* place of a double below 1 (2^-54), and lies in [0, 1]
IsQuotient(x, n, d) ==
    /\ ~x.neg
    /\ BigLeq(x.mag, BigOfInt(1))
    /\ BigNear(BigMul(x.mag, d), BigOfInt(n), d * (2 ^ (FracBits - 54)))

\* the call is within the claim's precondition
BoxInImage ==
    /\ arg.size[1] > 0 /\ arg.size[2] > 0
    /\ arg.box[1] <= arg.box[2] /\ arg.box[2] <= arg.size[1]
    /\ arg.box[3] <= arg.box[4] /\ arg.box[4] <= arg.size[2]

\* the four values returned are the quotients of the formulas and lie in [0, 1]
QuotientsReturned ==
    /\ ret.exc = "none"
    /\ IsQuotient(ret.yolo_box[1], arg.box[1] + arg.box[2], 2 * arg.size[1])
    /\ IsQuotient(ret.yolo_box[2], arg.box[3] + arg.box[4], 2 * arg.size[2])
    /\ IsQuotient(ret.yolo_box[3], arg.box[2] - arg.box[1], arg.size[1])
    /\ IsQuotient(ret.yolo_box[4], arg.box[4] - arg.box[3], arg.size[2])

\* C9 as stated: for a box inside an image of positive size the four values
\* returned are the quotients of the formulas, they lie in [0, 1], and
\* re-expanding (center -/+ extent/2) * side gives back xmin, xmax, ymin and
\* ymax.
C9_ExactRoundTrip ==
    (pc = "ret" /\ BoxInImage) =>
        /\ QuotientsReturned
        /\ IsInt(ExpandLow(ret.yolo_box[1], ret.yolo_box[3], arg.size[1]), arg.box[1])
        /\ IsInt(ExpandHigh(ret.yolo_box[1], ret.yolo_box[3], arg.size[1]), arg.box[2])
        /\ IsInt(ExpandLow(ret.yolo_box[2], ret.yolo_box[4], arg.size[2]), arg.box[3])
        /\ IsInt(ExpandHigh(ret.yolo_box[2], ret.yolo_box[4], arg.size[2]), arg.box[4])

\* the double x is within side * 2^-51 of the integer n
NearInt(x, n, side) ==
    ~x.neg /\ BigNear(x.mag, BigOfInt(n), side * (2 ^ (FracBits - 51)))

\* re-expanding the six-decimal values of the label line (in millionths)
\* gives n to within 1.5 * side millionths: twice the difference is compared
MicrosNear(twice, n, side) ==
    /\ twice - 2 * n * 1000000 <= 3 * side
    /\ 2 * n * 1000000 - twice <= 3 * side

\* C9, amended: for a box inside an image of positive size the four values
\* returned are the quotients of the formulas, to the precision of a double,
\* and lie in [0, 1]; re-expanding (center -/+ extent/2) * side recovers
\* xmin, xmax, ymin and ymax to within floating rounding: to side * 2^-51
\* from the values returned, and to 1.5 * side millionths from the
\* six-decimal values of the label line.
C9_RoundTripWithinRounding ==
    (pc = "ret" /\ BoxInImage) =>
        /\ QuotientsReturned
        /\ NearInt(ExpandLow(ret.yolo_box[1], ret.yolo_box[3], arg.size[1]), arg.box[1], arg.size[1])
        /\ NearInt(ExpandHigh(ret.yolo_box[1], ret.yolo_box[3], arg.size[1]), arg.box[2], arg.size[1])
        /\ NearInt(ExpandLow(ret.yolo_box[2], ret.yolo_box[4], arg.size[2]), arg.box[3], arg.size[2])
        /\ NearInt(ExpandHigh(ret.yolo_box[2], ret.yolo_box[4], arg.size[2]), arg.box[4], arg.size[2])
        /\ \A c \in 1..4 : ~ret.line.coords[c].neg /\ ret.line.coords[c].micros \in 0..1000000
        /\ MicrosNear((2 * ret.line.coords[1].micros - ret.line.coords[3].micros) * arg.size[1],
                      arg.box[1], arg.size[1])
        /\ MicrosNear((2 * ret.line.coords[1].micros + ret.line.coords[3].micros) * arg.size[1],
                      arg.box[2], arg.size[1])
        /\ MicrosNear((2 * ret.line.coords[2].micros - ret.line.coords[4].micros) * arg.size[2],
                      arg.box[3], arg.size[2])
        /\ MicrosNear((2 * ret.line.coords[2].micros + ret.line.coords[4].micros) * arg.size[2],
                      arg.box[4], arg.size[2])

\* a box whose re-expansion misses xmin: (0.3 - 0.2 / 2) * 5 is not 1
C9_Witness ==
    /\ pc = "ret"
    /\ BoxInImage
    /\ arg.size = <<5, 3>>
    /\ arg.box = <<1, 2, 1, 2>>
    /\ ret.exc = "none"
    /\ ~IsInt(ExpandLow(ret.yolo_box[1], ret.yolo_box[3], arg.size[1]), arg.box[1])
    /\ ret.line.coords[1].micros = 300000

=============================================================================
